---- MODULE Spec2Model ----
(***************************************************************************)
(* Model of package.py, the packager of the phantabular browser extension. *)
(*                                                                         *)
(* The script opens one zip archive, then executes a fixed sequence of     *)
(* add_dir / add_file statements and falls off its end.  Paths are         *)
(* modelled as sequences of path components, so  a + "/" + b  is           *)
(* Append(a, b).  The file system is a set of (path, kind) entries.        *)
(***************************************************************************)
EXTENDS Integers, Sequences, FiniteSets, TLC

VARIABLES
    disk,      \* the source tree: a set of [path, kind] entries
    pc,        \* index in Ops of the next statement of the inclusion sequence
    status,    \* "running", "raised" (unhandled exception), "exit0", "exit1"
    archive,   \* entries written to output_file so far, in order
    closed,    \* TRUE once the zip's central directory has been written
    stdout,    \* the lines printed by add_dir_to_target_dir
    run,       \* number of the current run of the script
    prev       \* the archive the previous run left behind

vars == <<disk, pc, status, archive, closed, stdout, run, prev>>

(***************************************************************************)
(* Bounds of the model.                                                    *)
(***************************************************************************)
MaxDepth   == 2    \* nesting depth of subdirectories inside an added directory
MaxEntries == 3    \* number of files and directories inside an added directory
MaxRuns    == 2    \* how often the script is run over the same tree

FileNames == {"a.js", "b.js"}
DirNames  == {"sub", "lib"}

(***************************************************************************)
(* Sequences and paths.                                                    *)
(***************************************************************************)
IsPrefix(s, t) == Len(s) <= Len(t) /\ SubSeq(t, 1, Len(s)) = s

StripPrefix(p, t) == SubSeq(t, Len(p) + 1, Len(t))

\* every order in which a directory listing can return the names of S
Perms(S) ==
    {s \in [1..Cardinality(S) -> S] : \A i, j \in 1..Cardinality(S) : s[i] = s[j] => i = j}

\* self_dirname = os.path.dirname(__file__)
SelfDirname == <<"self_dirname">>

\* the hardcoded inclusion sequence
Ops ==
    << [op |-> "add_dir",  arg |-> <<"archive">>],
       [op |-> "add_dir",  arg |-> <<"background">>],
       [op |-> "add_dir",  arg |-> <<"deps", "dexie", "dist">>],
       [op |-> "add_file", arg |-> <<"deps", "dexie", "LICENSE">>],
       [op |-> "add_file", arg |-> <<"deps", "jexl", "jexl.bundle.js">>],
       [op |-> "add_file", arg |-> <<"deps", "jexl", "LICENSE.txt">>],
       [op |-> "add_file", arg |-> <<"deps", "mvp", "mvp.css">>],
       [op |-> "add_file", arg |-> <<"deps", "mvp", "LICENSE">>],
       [op |-> "add_file", arg |-> <<"deps", "open-color", "open-color.css">>],
       [op |-> "add_file", arg |-> <<"deps", "open-color", "LICENSE">>],
       [op |-> "add_dir",  arg |-> <<"icons">>],
       [op |-> "add_dir",  arg |-> <<"images">>],
       [op |-> "add_dir",  arg |-> <<"popup">>],
       [op |-> "add_dir",  arg |-> <<"settings">>],
       [op |-> "add_dir",  arg |-> <<"shared">>],
       [op |-> "add_dir",  arg |-> <<"LICENSE">>],
       [op |-> "add_file", arg |-> <<"manifest.json">> ] >>

NumOps == Len(Ops)

(***************************************************************************)
(* The file system.                                                        *)
(***************************************************************************)
\* os.stat: the kind of the entry at path, "missing" when there is none
KindAt(d, path) ==
    IF \E e \in d : e.path = path
    THEN (CHOOSE e \in d : e.path = path).kind
    ELSE "missing"

\* os.scandir: the names of the entries of kind k directly inside top
NamesIn(d, top, k) ==
    {e.path[Len(e.path)] : e \in {x \in d : /\ x.kind = k
                                           /\ Len(x.path) = Len(top) + 1
                                           /\ IsPrefix(top, x.path)}}

\* the regular files reachable by recursive descent from top
FilesUnder(d, top) ==
    {e.path : e \in {x \in d : x.kind = "file" /\ IsPrefix(top, x.path) /\ x.path # top}}

\* Path(self_dirname + "/build").mkdir(parents=True, exist_ok=True)
Mkdir(d) ==
    IF KindAt(d, Append(SelfDirname, "build")) = "missing"
    THEN d \cup {[path |-> Append(SelfDirname, "build"), kind |-> "dir"]}
    ELSE d

\* the contents a directory can have: nesting depth at most dep, at most n entries
Flat(fs, ds, subtree) ==
    {[path |-> <<f>>, kind |-> "file"] : f \in fs}
    \cup {[path |-> <<x>>, kind |-> "dir"] : x \in ds}
    \cup UNION {{[path |-> <<x>> \o e.path, kind |-> e.kind] : e \in subtree[x]} : x \in ds}

RECURSIVE Contents(_, _)
Contents(dep, n) ==
    IF dep = 0
    THEN {Flat(fs, {}, <<>>) : fs \in {x \in SUBSET FileNames : Cardinality(x) <= n}}
    ELSE LET shapes == {p \in (SUBSET FileNames) \X (SUBSET DirNames) :
                           Cardinality(p[1]) + Cardinality(p[2]) <= n}
             Below(p) == Contents(dep - 1, n - Cardinality(p[1]) - Cardinality(p[2]))
         IN UNION {{Flat(p[1], p[2], subtree) :
                       subtree \in {s \in [p[2] -> Below(p)] :
                                       Cardinality(Flat(p[1], p[2], s)) <= n}} : p \in shapes}

\* what can be found at a path of the inclusion list: nothing, a file, a directory
Nodes ==
    {{}} \cup {{[path |-> <<>>, kind |-> "file"]}}
    \cup {{[path |-> <<>>, kind |-> "dir"]} \cup c : c \in Contents(MaxDepth, MaxEntries)}

\* the tree the inclusion list expects: every named directory holds a file
Expected(i) ==
    IF Ops[i].op = "add_dir"
    THEN {[path |-> <<>>, kind |-> "dir"], [path |-> <<"a.js">>, kind |-> "file"]}
    ELSE {[path |-> <<>>, kind |-> "file"]}

Rooted(rel, node) == {[path |-> SelfDirname \o rel \o e.path, kind |-> e.kind] : e \in node}

Parents ==
    {[path |-> SelfDirname \o p, kind |-> "dir"] :
        p \in {<<>>, <<"deps">>, <<"deps", "dexie">>, <<"deps", "jexl">>,
               <<"deps", "mvp">>, <<"deps", "open-color">>}}

\* the source tree in which the path of statement r holds node
DiskWith(r, node) ==
    Parents \cup UNION {Rooted(Ops[i].arg, IF i = r THEN node ELSE Expected(i)) : i \in 1..NumOps}

(***************************************************************************)
(* The archive and the directory walk.                                     *)
(***************************************************************************)
Nothing == [zip |-> <<>>, out |-> <<>>]

Cat(a, b) == [zip |-> a.zip \o b.zip, out |-> a.out \o b.out]

KindOf(path) == KindAt(disk, path)

\* what one os.scandir of top can hand to os.walk: the subdirectory names and the
\* other names, each list in an order the operating system chooses
Listings(top) == Perms(NamesIn(disk, top, "dir")) \X Perms(NamesIn(disk, top, "file"))

\* output_file.write(source, target) for a path that exists: one entry, named
\* target, or target + "/" (a trailing empty component) when source is a directory.
\* The targets of this script are relative and hold no "." or "..", so the
\* normalisation ZipInfo.from_file applies to the name leaves them as they are.
ZipWrite(source, target) ==
    <<[source |-> source,
       target |-> IF KindOf(source) = "dir" THEN Append(target, "") ELSE target,
       is_dir |-> KindOf(source) = "dir"]>>

\* variant: the write replaces what the archive held
ZipTruncate(arch, entries) == entries

\* the archive after output_file.write has added entries to it
ZipAppend(arch, entries) == arch \o entries

\* variant: the statement dirnames[:] = [] left out
KeepDirnames(dirnames) == dirnames

\* dirnames[:] = []
ClearDirnames(dirnames) == <<>>

\* variant: the subdirectory name not appended to the target
DirTargetSame(target_dir_name, dirname) == target_dir_name

\* target = target_dir_name + "/" + dirname
DirTarget(target_dir_name, dirname) == Append(target_dir_name, dirname)

\* target = target_dir_name + "/" + filename
FileTarget(target_dir_name, filename) == Append(target_dir_name, filename)

\* for filename in filenames: ...
FileLoop(dirpath, target_dir_name, filenames) ==
    [zip |-> [i \in 1..Len(filenames) |->
                 ZipWrite(Append(dirpath, filenames[i]),
                          FileTarget(target_dir_name, filenames[i]))[1]],
     out |-> [i \in 1..Len(filenames) |->
                 [kind |-> "file", source |-> Append(dirpath, filenames[i]),
                  target |-> FileTarget(target_dir_name, filenames[i])]]]

RECURSIVE add_dir_to_target_dir(_, _), DirLoop(_, _, _, _), Descend(_, _, _, _), os_walk(_, _)

\* for dirname in dirnames: ...  The list iterator is at index i; the body replaces
\* the contents of the list it iterates over, so the iterator re-reads the list.
DirLoop(dirpath, target_dir_name, dirnames, i) ==
    IF i > Len(dirnames)
    THEN {[zip |-> <<>>, out |-> <<>>, dirnames |-> dirnames]}
    ELSE LET source == Append(dirpath, dirnames[i])
             target == DirTarget(target_dir_name, dirnames[i])
             line   == [kind |-> "dir", source |-> source, target |-> target]
         IN {[zip |-> r.zip \o rest.zip,
              out |-> <<line>> \o r.out \o rest.out,
              dirnames |-> rest.dirnames] :
                 r \in add_dir_to_target_dir(source, target),
                 rest \in DirLoop(dirpath, target_dir_name, ClearDirnames(dirnames), i + 1)}

\* os.walk after the loop body has run: it descends into what the body left in dirnames
Descend(top, target_dir_name, dirnames, i) ==
    IF i > Len(dirnames)
    THEN {Nothing}
    ELSE {Cat(a, b) : a \in os_walk(Append(top, dirnames[i]), target_dir_name),
                      b \in Descend(top, target_dir_name, dirnames, i + 1)}

\* for (dirpath, dirnames, filenames) in os.walk(top): the loop body with target_dir_name.
\* os.walk ignores the error of scanning a path that is no directory and yields nothing.
os_walk(top, target_dir_name) ==
    IF KindOf(top) # "dir"
    THEN {Nothing}
    ELSE UNION {UNION {{Cat(Cat([zip |-> b.zip, out |-> b.out],
                                FileLoop(top, target_dir_name, l[2])), w) :
                           w \in Descend(top, target_dir_name, b.dirnames, 1)} :
                       b \in DirLoop(top, target_dir_name, l[1], 1)} :
                   l \in Listings(top)}

add_dir_to_target_dir(source_dir_name, target_dir_name) ==
    os_walk(source_dir_name, target_dir_name)

\* variant: the target directory is the last component of the name only
add_dir_flat(relative_dir_name) ==
    add_dir_to_target_dir(SelfDirname \o relative_dir_name,
                          <<relative_dir_name[Len(relative_dir_name)]>>)

add_dir(relative_dir_name) ==
    add_dir_to_target_dir(SelfDirname \o relative_dir_name, relative_dir_name)

\* variant: the entry is named by the source path, self_dirname included
add_file_prefixed(relative_file_name) ==
    LET source_file_name == SelfDirname \o relative_file_name
    IN IF KindOf(source_file_name) = "missing"
       THEN [raised |-> TRUE, zip |-> <<>>]
       ELSE [raised |-> FALSE, zip |-> ZipWrite(source_file_name, source_file_name)]

\* output_file.write raises FileNotFoundError when os.stat finds no source
add_file(relative_file_name) ==
    LET source_file_name == SelfDirname \o relative_file_name
    IN IF KindOf(source_file_name) = "missing"
       THEN [raised |-> TRUE, zip |-> <<>>]
       ELSE [raised |-> FALSE, zip |-> ZipWrite(source_file_name, relative_file_name)]

(***************************************************************************)
(* The run of the script.                                                  *)
(*                                                                         *)
(* The source tree is an input.  The initial states take the tree the      *)
(* inclusion list expects and put, at the path of one statement, any node  *)
(* within the bounds: nothing, a file, or a directory with any contents.   *)
(* The state after lines 5-9: build/ exists, the archive is open and empty.*)
(***************************************************************************)
Init ==
    /\ \E r \in 1..NumOps : \E node \in Nodes : disk = Mkdir(DiskWith(r, node))
    /\ pc = 1
    /\ status = "running"
    /\ archive = <<>>
    /\ closed = FALSE
    /\ stdout = <<>>
    /\ run = 1
    /\ prev = <<>>

AddDir ==
    /\ status = "running"
    /\ pc <= NumOps
    /\ Ops[pc].op = "add_dir"
    /\ \E r \in add_dir(Ops[pc].arg) :
          /\ archive' = ZipAppend(archive, r.zip)
          /\ stdout' = stdout \o r.out
    /\ pc' = pc + 1
    /\ UNCHANGED <<disk, status, closed, run, prev>>

AddFile ==
    /\ status = "running"
    /\ pc <= NumOps
    /\ Ops[pc].op = "add_file"
    /\ LET r == add_file(Ops[pc].arg)
       IN IF r.raised
          THEN /\ status' = "raised"
               /\ UNCHANGED <<archive, pc>>
          ELSE /\ archive' = ZipAppend(archive, r.zip)
               /\ pc' = pc + 1
               /\ UNCHANGED status
    /\ UNCHANGED <<disk, closed, stdout, run, prev>>

\* The script never closes output_file.  When the process ends, after the last
\* statement or with the unhandled exception, the interpreter may or may not
\* run the archive object's finalizer, which writes the central directory.
Exit ==
    /\ \/ status = "running" /\ pc > NumOps /\ status' = "exit0"
       \/ status = "raised" /\ status' = "exit1"
    /\ closed' \in BOOLEAN
    /\ UNCHANGED <<disk, pc, archive, stdout, run, prev>>

\* The script is run again over the unchanged tree: the archive is opened with
\* mode "w", which truncates it.
Rerun ==
    /\ status \in {"exit0", "exit1"}
    /\ run < MaxRuns
    /\ run' = run + 1
    /\ prev' = archive
    /\ disk' = Mkdir(disk)
    /\ archive' = <<>>
    /\ stdout' = <<>>
    /\ closed' = FALSE
    /\ pc' = 1
    /\ status' = "running"

Next == AddDir \/ AddFile \/ Exit \/ Rerun

Spec == Init /\ [][Next]_vars

(***************************************************************************)
(* Properties.                                                             *)
(***************************************************************************)
SourceOf(i) == SelfDirname \o Ops[i].arg

DirOps  == {i \in 1..NumOps : Ops[i].op = "add_dir"}
FileOps == {i \in 1..NumOps : Ops[i].op = "add_file"}

Entries == {archive[k] : k \in 1..Len(archive)}
Lines   == {stdout[k] : k \in 1..Len(stdout)}

DexieDist == <<"deps", "dexie", "dist">>
Manifest  == <<"manifest.json">>

\* C1: once add_dir(source_dir) has returned, every regular file reachable by
\* recursive descent from source_dir has an entry in the archive at target_dir
\* followed by the file's path relative to source_dir.
C1_EveryFileUnderSourceDirArchived ==
    \A i \in DirOps :
        pc > i =>
            \A f \in FilesUnder(disk, SourceOf(i)) :
                \E e \in Entries :
                    /\ e.source = f
                    /\ e.target = Ops[i].arg \o StripPrefix(SourceOf(i), f)

\* C2: a source path of the inclusion list that does not exist makes its
\* statement fail: the run never gets past that statement and never ends in
\* the success state.
C2_MissingSourceAborts ==
    \A i \in 1..NumOps :
        KindOf(SourceOf(i)) = "missing" => pc <= i /\ status # "exit0"

\* C3: the archive never holds two entries with the same target path.
C3_NoDuplicateTargets ==
    \A j, k \in 1..Len(archive) : archive[j].target = archive[k].target => j = k

\* a finished run that wrote a file of an added directory and the file of the same
\* name of one of its subdirectories
C3_Witness ==
    /\ status = "exit0"
    /\ \E e, g \in Entries :
          /\ Len(e.source) = Len(g.source) + 1
          /\ e.source[Len(e.source)] = g.source[Len(g.source)]
          /\ IsPrefix(SubSeq(g.source, 1, Len(g.source) - 1), e.source)

\* C4 as stated: target paths mirror the path relative to the script directory,
\* except under deps/dexie/dist, whose files get a shorter target path.
C4_DexieDistFlattened ==
    \A e \in Entries :
        ~e.is_dir =>
        IF IsPrefix(SelfDirname \o DexieDist, e.source)
        THEN Len(e.target) < Len(StripPrefix(SelfDirname, e.source))
        ELSE e.target = StripPrefix(SelfDirname, e.source)

\* C4 amended: the target path of every regular file written, those under
\* deps/dexie/dist included, is its source path relative to the script directory.
C4_TargetsMirrorSource ==
    \A e \in Entries :
        ~e.is_dir =>
            /\ IsPrefix(SelfDirname, e.source)
            /\ e.target = StripPrefix(SelfDirname, e.source)

\* a finished run that wrote a file of a subdirectory of deps/dexie/dist
C4_Witness ==
    /\ status = "exit0"
    /\ \E e \in Entries :
          /\ IsPrefix(SelfDirname \o DexieDist, e.source)
          /\ Len(e.source) > Len(SelfDirname \o DexieDist) + 1

\* C5: add_file(path) on an existing regular file appends one entry, whose
\* target is path itself, and afterwards exactly one entry of the archive has
\* that target.
C5_AddFileWritesOneEntry ==
    [][(/\ status = "running"
        /\ pc \in FileOps
        /\ KindOf(SourceOf(pc)) = "file")
       => /\ archive' = Append(archive, [source |-> SourceOf(pc),
                                         target |-> Ops[pc].arg,
                                         is_dir |-> FALSE])
          /\ Cardinality({k \in 1..Len(archive') : archive'[k].target = Ops[pc].arg}) = 1]_vars

\* every add_file statement of the sequence has written its entry
C5_Witness ==
    /\ pc > NumOps
    /\ \A i \in FileOps : \E e \in Entries : e.target = Ops[i].arg /\ ~e.is_dir

\* C6: when manifest.json does not exist, add_file("manifest.json") fails and
\* from then on the archive is never finalized and never holds an entry for
\* manifest.json.
C6_NoFinalArchiveWithoutManifest ==
    (KindOf(SourceOf(NumOps)) = "missing" /\ pc = NumOps /\ status # "running")
    => /\ status \in {"raised", "exit1"}
       /\ ~closed
       /\ \A e \in Entries : e.target # Manifest

\* C7: a run in which every add operation succeeded ends with the archive
\* finalized.
C7_SuccessfulRunFinalized ==
    status = "exit0" => closed

\* C8: two runs over the same unchanged tree leave identical archives.
C8_RunsIdentical ==
    (run >= 2 /\ status \in {"exit0", "exit1"}) => archive = prev

\* C9: every recursive call of add_directory(source_dir, target_dir) has the same
\* subdirectory names appended to both paths, and every file is written at
\* (current target directory)/filename: each write has a regular file under
\* source_dir as its source, and its target minus target_dir is its source
\* minus source_dir.
C9_WalkKeepsRelativePaths ==
    \A l \in Lines :
        \E i \in DirOps :
            /\ i < pc
            /\ IsPrefix(SourceOf(i), l.source)
            /\ IsPrefix(Ops[i].arg, l.target)
            /\ StripPrefix(SourceOf(i), l.source) = StripPrefix(Ops[i].arg, l.target)
            /\ Len(l.source) > Len(SourceOf(i))
            /\ l.kind = "dir" => KindOf(l.source) = "dir"
            /\ l.kind = "file" =>
                  /\ l.source \in FilesUnder(disk, SourceOf(i))
                  /\ [source |-> l.source, target |-> l.target, is_dir |-> FALSE] \in Entries

\* a file written by a recursive call made from a recursive call
C9_Witness ==
    \E l, m, n \in Lines :
        /\ l.kind = "dir" /\ m.kind = "dir" /\ n.kind = "file"
        /\ m.source = Append(l.source, m.source[Len(m.source)])
        /\ n.source = Append(m.source, n.source[Len(n.source)])

\* C10: during a run the archive only grows at its end, also when a statement
\* fails and when the process ends.
C10_AppendOnly ==
    [][run' = run => IsPrefix(archive, archive')]_vars

\* a failed run that has ended with earlier entries still in the archive
C10_Witness ==
    status = "exit1" /\ Len(archive) > 0

====
